---- MODULE Spec2Model ----
(***************************************************************************)
(* A model of the POSIX command evaluator of oursh                         *)
(* (src/program/posix/mod.rs, Command::run) and of the builtins it calls   *)
(* (src/program/posix/builtin.rs: Exit, Cd, Wait).                         *)
(*                                                                         *)
(* Command::run is a recursive function.  It is modelled as a small-step   *)
(* machine: every thread has a control (the command it is about to         *)
(* evaluate, or the Result a command just returned) and a stack of the     *)
(* combinators whose match/for is waiting for a child.  Each thread keeps  *)
(* a history of the calls and returns of run, which is what the            *)
(* properties are stated over.                                             *)
(*                                                                         *)
(* Environment assumptions: words are Rust Strings (valid UTF-8, no NUL),  *)
(* so CString::new(..).expect and to_str().unwrap() do not panic; the      *)
(* line editor's save_history and the OS's thread and process creation     *)
(* succeed (the code unwraps/expects them).                                *)
(***************************************************************************)
EXTENDS Integers, Sequences, FiniteSets, TLC

VARIABLES
    prog,      \* the command handed to run on the main thread
    ctl,       \* per thread: what it is doing
    stack,     \* per thread: the combinators waiting for a child
    hist,      \* per thread: the calls and returns of Command::run so far
    cwd,       \* the process's working directory
    env,       \* the process's environment variables (HOME, PWD)
    proc,      \* the shell process: alive, or terminated with a code
    rl,        \* runtime.rl: is there a line editor (interactive session)
    saved,     \* how many times save_history was called
    effects,   \* the processes spawned and the builtins called, in order
    jobs,      \* runtime.jobs: the job table
    borrows,   \* the RefCell borrow state of the job table (shared borrows)
    wt         \* the state of a call of Wait::run

vars == <<prog, ctl, stack, hist, cwd, env, proc, rl, saved, effects, jobs,
          borrows, wt>>

----------------------------------------------------------------------------
(* Bounds of the model *)

\* the number of background threads a run may spawn
MaxBg == 2
\* the longest Compound list among the programs
MaxCompound == 2
\* the largest job table
MaxJobs == 2

----------------------------------------------------------------------------
(* WaitStatus and Result *)

\* Pid::this(): the pid of the shell
ThisPid == 1

\* the pids of spawned children
ChildPids == {2, 3, 4}

Exited(p, c) == [t |-> "Exited", pid |-> p, code |-> c]
Signaled(p, s) == [t |-> "Signaled", pid |-> p, code |-> s]
Stopped(p, s) == [t |-> "Stopped", pid |-> p, code |-> s]
NoStatus == [t |-> "None", pid |-> 0, code |-> 0]

Ok(s) == [ok |-> TRUE, st |-> s, err |-> "None"]
Err(e) == [ok |-> FALSE, st |-> NoStatus, err |-> e]
NoResult == [ok |-> FALSE, st |-> NoStatus, err |-> "None"]

ExitedZero(r) == r.ok /\ r.st.t = "Exited" /\ r.st.code = 0
ExitedNonZero(r) == r.ok /\ r.st.t = "Exited" /\ r.st.code # 0

\* (c == 0) as i32
BoolAsI32(b) == IF b THEN 1 ELSE 0

\* map_err(|_| Error::Runtime)
MapErrRuntime(r) == IF r.ok THEN r ELSE Err("Runtime")

----------------------------------------------------------------------------
(* The AST *)

Simple(words) == [type |-> "Simple", words |-> words, sub |-> <<>>]
Compound(commands) == [type |-> "Compound", words |-> <<>>, sub |-> commands]
Not(command) == [type |-> "Not", words |-> <<>>, sub |-> <<command>>]
And(left, right) == [type |-> "And", words |-> <<>>, sub |-> <<left, right>>]
Or(left, right) == [type |-> "Or", words |-> <<>>, sub |-> <<left, right>>]
Pipeline(left, right) ==
    [type |-> "Pipeline", words |-> <<>>, sub |-> <<left, right>>]
Background(command) ==
    [type |-> "Background", words |-> <<>>, sub |-> <<command>>]

NoCommand == [type |-> "None", words |-> <<>>, sub |-> <<>>]

----------------------------------------------------------------------------
(* Words and the integer parse of the exit builtin *)

\* the spelling of the words that are given to exit and wait as argument
Chars(w) ==
    CASE w = "0" -> <<"0">>
      [] w = "1" -> <<"1">>
      [] w = "2" -> <<"2">>
      [] w = "3" -> <<"3">>
      [] w = "42" -> <<"4", "2">>
      [] w = "007" -> <<"0", "0", "7">>
      [] w = "+7" -> <<"+", "7">>
      [] w = "-1" -> <<"-", "1">>
      [] w = "+" -> <<"+">>
      [] w = "-" -> <<"-">>
      [] w = "" -> <<>>
      [] w = "abc" -> <<"a", "b", "c">>
      [] w = "4x" -> <<"4", "x">>
      [] w = " 4" -> <<" ", "4">>
      [] w = "2147483647" -> <<"2", "1", "4", "7", "4", "8", "3", "6", "4", "7">>
      [] w = "2147483648" -> <<"2", "1", "4", "7", "4", "8", "3", "6", "4", "8">>
      [] w = "-2147483648" ->
            <<"-", "2", "1", "4", "7", "4", "8", "3", "6", "4", "8">>
      [] w = "-2147483649" ->
            <<"-", "2", "1", "4", "7", "4", "8", "3", "6", "4", "9">>
      [] OTHER -> <<"?">>

ExitArgs ==
    {"0", "1", "42", "007", "+7", "-1", "+", "-", "", "abc", "4x", " 4",
     "2147483647", "2147483648", "-2147483648", "-2147483649"}

Digits == {"0", "1", "2", "3", "4", "5", "6", "7", "8", "9"}

DigitVal(ch) ==
    CASE ch = "0" -> 0 [] ch = "1" -> 1 [] ch = "2" -> 2 [] ch = "3" -> 3
      [] ch = "4" -> 4 [] ch = "5" -> 5 [] ch = "6" -> 6 [] ch = "7" -> 7
      [] ch = "8" -> 8 [] ch = "9" -> 9

I32Max == 2147483647
I32Min == -I32Max - 1

ParsedOk(n) == [ok |-> TRUE, n |-> n]
ParseError == [ok |-> FALSE, n |-> 0]

\* does acc * 10 + d (acc * 10 - d for a negative number) leave the i32
\* range: the checked_mul and checked_add/checked_sub of the digit loop,
\* decided without computing a number outside the range
Overflows(acc, d, neg) ==
    IF neg
      THEN IF d = 0 THEN -acc > I32Max \div 10
           ELSE -acc > (I32Max - (d - 1)) \div 10
    ELSE acc > (I32Max - d) \div 10

\* the digit loop of i32::from_str; acc is the result so far
RECURSIVE ParseDigits(_, _, _)
ParseDigits(cs, acc, neg) ==
    IF ~acc.ok \/ cs = <<>> THEN acc
    ELSE IF Head(cs) \notin Digits THEN ParseError
    ELSE IF Overflows(acc.n, DigitVal(Head(cs)), neg) THEN ParseError
    ELSE ParseDigits(Tail(cs),
                     ParsedOk(IF neg THEN acc.n * 10 - DigitVal(Head(cs))
                              ELSE acc.n * 10 + DigitVal(Head(cs))),
                     neg)

\* str::parse::<i32>
ParseI32(cs) ==
    IF cs = <<>> THEN ParseError
    ELSE IF Head(cs) \in {"+", "-"} /\ Len(cs) = 1 THEN ParseError
    ELSE IF Head(cs) = "+" THEN ParseDigits(Tail(cs), ParsedOk(0), FALSE)
    ELSE IF Head(cs) = "-" THEN ParseDigits(Tail(cs), ParsedOk(0), TRUE)
    ELSE ParseDigits(cs, ParsedOk(0), FALSE)

----------------------------------------------------------------------------
(* The file system and the environment *)

\* the directories chdir can enter
Dirs == {"/", "/home", "/tmp"}

Unset == "<unset>"

\* the values HOME may have when the shell starts
HomeValues == {Unset, "/home", "/gone"}

\* nix::unistd::chdir
ChdirOk(dst) == dst \in Dirs

----------------------------------------------------------------------------
(* The builtins, as functions of argv and the state they read *)

\* what a builtin does: the Result it returns (when it returns), whether it
\* terminates the process and with which code, whether it saves the history,
\* and the working directory and environment it leaves
Outcome(res, terminate, code, save, dir, e) ==
    [res |-> res, terminate |-> terminate, code |-> code, save |-> save,
     cwd |-> dir, env |-> e]

\* an Exit::run whose fallback for an unparsable argument is 1
ExitRunFallbackOne(argv, hasRl, dir, e) ==
    LET save == (Len(argv) = 1 \/ Len(argv) = 2) /\ hasRl
    IN  IF Len(argv) = 1
          THEN Outcome(NoResult, TRUE, 0, save, dir, e)
        ELSE IF Len(argv) = 2
          THEN LET n == ParseI32(Chars(argv[2]))
               IN  IF n.ok THEN Outcome(NoResult, TRUE, n.n, save, dir, e)
                   ELSE Outcome(NoResult, TRUE, 1, save, dir, e)
        ELSE Outcome(Ok(Exited(ThisPid, 1)), FALSE, 0, save, dir, e)

\* builtin.rs, Exit::run
ExitRun(argv, hasRl, dir, e) ==
    LET save == (Len(argv) = 1 \/ Len(argv) = 2) /\ hasRl
    IN  IF Len(argv) = 1
          THEN Outcome(NoResult, TRUE, 0, save, dir, e)
        ELSE IF Len(argv) = 2
          THEN LET n == ParseI32(Chars(argv[2]))
               IN  IF n.ok THEN Outcome(NoResult, TRUE, n.n, save, dir, e)
                   ELSE Outcome(NoResult, TRUE, 2, save, dir, e)
        ELSE Outcome(Ok(Exited(ThisPid, 1)), FALSE, 0, save, dir, e)

\* a Cd::run that sets PWD before it knows whether chdir succeeded
CdRunPwdFirst(argv, hasRl, dir, e) ==
    IF Len(argv) = 1
      THEN IF e["HOME"] = Unset
             THEN Outcome(Err("Runtime"), FALSE, 0, FALSE, dir, e)
           ELSE LET dst == e["HOME"]
                IN  IF ChdirOk(dst)
                      THEN Outcome(Ok(Exited(ThisPid, 0)), FALSE, 0, FALSE,
                                   dst, [e EXCEPT !["PWD"] = dst])
                    ELSE Outcome(Err("Runtime"), FALSE, 0, FALSE, dir,
                                 [e EXCEPT !["PWD"] = dst])
    ELSE IF Len(argv) = 2
      THEN LET dst == argv[2]
           IN  IF ChdirOk(dst)
                 THEN Outcome(Ok(Exited(ThisPid, 0)), FALSE, 0, FALSE,
                              dst, [e EXCEPT !["PWD"] = dst])
               ELSE Outcome(Err("Runtime"), FALSE, 0, FALSE, dir,
                            [e EXCEPT !["PWD"] = dst])
    ELSE Outcome(Ok(Exited(ThisPid, 1)), FALSE, 0, FALSE, dir, e)

\* builtin.rs, Cd::run
CdRun(argv, hasRl, dir, e) ==
    IF Len(argv) = 1
      THEN IF e["HOME"] = Unset
             THEN Outcome(Err("Runtime"), FALSE, 0, FALSE, dir, e)
           ELSE LET dst == e["HOME"]
                IN  IF ChdirOk(dst)
                      THEN Outcome(Ok(Exited(ThisPid, 0)), FALSE, 0, FALSE,
                                   dst, [e EXCEPT !["PWD"] = dst])
                    ELSE Outcome(Err("Runtime"), FALSE, 0, FALSE, dir, e)
    ELSE IF Len(argv) = 2
      THEN LET dst == argv[2]
           IN  IF ChdirOk(dst)
                 THEN Outcome(Ok(Exited(ThisPid, 0)), FALSE, 0, FALSE,
                              dst, [e EXCEPT !["PWD"] = dst])
               ELSE Outcome(Err("Runtime"), FALSE, 0, FALSE, dir, e)
    ELSE Outcome(Ok(Exited(ThisPid, 1)), FALSE, 0, FALSE, dir, e)

\* builtin::Null::run, the `:` builtin: a no-op success
NullRun(argv, hasRl, dir, e) ==
    Outcome(Ok(Exited(ThisPid, 0)), FALSE, 0, FALSE, dir, e)

\* the names Command::Simple matches before it spawns a Job
Dispatched == {":", "exit", "cd"}

\* the builtin table of the shell
BuiltinNames == {"exit", "cd", "export", "wait", ".", ":", "command", "jobs"}

\* Job::new(argv).run(): what waiting for the spawned process may give
JobRun(pid) ==
    {Ok(Exited(pid, 0)), Ok(Exited(pid, 1)), Ok(Exited(pid, 2)),
     Ok(Signaled(pid, 9)), Ok(Stopped(pid, 19)), Err("Job")}

\* the exit statuses of the stages of a pipeline
StageStatus == {0, 1}

----------------------------------------------------------------------------
(* The programs that are run *)

\* external commands
Externals == {Simple(<<"a">>), Simple(<<"b">>)}

\* the simple commands the combinators are built over
CoreLeaves ==
    Externals \cup {Simple(<<>>), Simple(<<":">>),
                    Simple(<<"cd", "/nonexistent">>)}

ExitLeaves ==
    {Simple(<<"exit">>), Simple(<<"exit", "1", "2">>)}
    \cup {Simple(<<"exit", w>>) : w \in ExitArgs}

CdLeaves ==
    {Simple(<<"cd">>), Simple(<<"cd", "/tmp">>), Simple(<<"cd", "/home">>),
     Simple(<<"cd", "/nonexistent">>), Simple(<<"cd", "/tmp", "/home">>)}

NameLeaves ==
    {Simple(<<"export", "A=1">>), Simple(<<"wait">>), Simple(<<".", "f">>),
     Simple(<<"command", "a">>), Simple(<<"jobs">>), Simple(<<"cdx">>)}

Leaves == CoreLeaves \cup ExitLeaves \cup CdLeaves \cup NameLeaves

\* the lists of length n of commands of the set S
RECURSIVE Lists(_, _)
Lists(S, n) ==
    IF n = 0 THEN {<<>>}
    ELSE {<<c>> \o l : c \in S, l \in Lists(S, n - 1)}

\* one combinator over the commands of S
Combined(S) ==
    {Not(c) : c \in S}
    \cup {And(l, r) : l \in S, r \in S}
    \cup {Or(l, r) : l \in S, r \in S}
    \cup {Compound(l) : l \in UNION {Lists(S, n) : n \in 0..MaxCompound}}
    \cup {Background(c) : c \in S}

Level1 ==
    Combined(CoreLeaves)
    \cup {Pipeline(l, r) : l \in Externals, r \in Externals}

\* the combinators that are nested in another one
Inner ==
    Combined({Simple(<<"a">>), Simple(<<":">>)})
    \cup {Pipeline(Simple(<<"a">>), Simple(<<"b">>))}

\* a combinator over a combinator
Level2 ==
    {Not(c) : c \in Inner}
    \cup {And(l, Simple(<<"b">>)) : l \in Inner}
    \cup {And(Simple(<<"a">>), r) : r \in Inner}
    \cup {Or(l, Simple(<<"b">>)) : l \in Inner}
    \cup {Or(Simple(<<"a">>), r) : r \in Inner}
    \cup {Compound(<<l, Simple(<<"b">>)>>) : l \in Inner}
    \cup {Background(c) : c \in Inner}

Programs ==
    Leaves \cup Level1 \cup Level2
    \cup {And(Simple(<<"a">>), Simple(<<"exit", "1", "2">>)),
          Or(Simple(<<"cd", "/tmp">>), Simple(<<"exit", "42">>)),
          Compound(<<Simple(<<"cd", "/tmp">>), Simple(<<"cd">>)>>),
          Background(Background(Background(Simple(<<"a">>)))),
          Background(Simple(<<"exit", "42">>))}

\* the programs that are run with every HOME, with and without line editor
EnvPrograms == Programs \ (Level1 \cup Level2)

----------------------------------------------------------------------------
(* Threads, frames and the history of run *)

Main == 0
Threads == 0..MaxBg
BgThreads == 1..MaxBg

Ctl(mode, c, r) == [mode |-> mode, cmd |-> c, res |-> r]

\* a combinator waiting for the child at position pos of its sub-commands
Frame(node, pos) == [node |-> node, pos |-> pos]

\* a call of run on c at nesting depth d, or its return with result r;
\* stage is the wait status of the last stage a Pipeline waited for
Event(ev, c, d, r, stage) ==
    [ev |-> ev, cmd |-> c, depth |-> d, res |-> r, stage |-> stage]

CallEv(c, d) == Event("call", c, d, NoResult, NoStatus)
RetEv(c, d, r) == Event("ret", c, d, r, NoStatus)

\* an entry of the log of spawned processes and called builtins
Effect(kind, argv, t) == [kind |-> kind, argv |-> argv, thread |-> t]

\* the pid the next spawned process gets
NextPid == ThisPid + 1 + Len(effects)

Top(t) == stack[t][Len(stack[t])]
Pop(t) == SubSeq(stack[t], 1, Len(stack[t]) - 1)

Evaluating(t, type) ==
    /\ proc.alive
    /\ ctl[t].mode = "eval"
    /\ ctl[t].cmd.type = type

Returning(t, type) ==
    /\ proc.alive
    /\ ctl[t].mode = "ret"
    /\ stack[t] # <<>>
    /\ Top(t).node.type = type

\* run returns r for the command c the thread is evaluating
Return(t, c, r, stage) ==
    /\ ctl' = [ctl EXCEPT ![t] = Ctl("ret", c, r)]
    /\ hist' = [hist EXCEPT ![t] =
                   Append(@, Event("ret", c, Len(stack[t]), r, stage))]
    /\ stack' = stack

\* the combinator on top of the stack returns r
ReturnTop(t, r) ==
    /\ ctl' = [ctl EXCEPT ![t] = Ctl("ret", Top(t).node, r)]
    /\ hist' = [hist EXCEPT ![t] =
                   Append(@, RetEv(Top(t).node, Len(stack[t]) - 1, r))]
    /\ stack' = [stack EXCEPT ![t] = Pop(t)]

\* the combinator c the thread is evaluating calls run on its child at pos
Enter(t, c, pos) ==
    /\ ctl' = [ctl EXCEPT ![t] = Ctl("eval", c.sub[pos], NoResult)]
    /\ hist' = [hist EXCEPT ![t] =
                   Append(@, CallEv(c.sub[pos], Len(stack[t]) + 1))]
    /\ stack' = [stack EXCEPT ![t] = Append(@, Frame(c, pos))]

\* the combinator on top of the stack calls run on its child at pos
Advance(t, pos) ==
    /\ ctl' = [ctl EXCEPT ![t] = Ctl("eval", Top(t).node.sub[pos], NoResult)]
    /\ hist' = [hist EXCEPT ![t] =
                   Append(@, CallEv(Top(t).node.sub[pos], Len(stack[t])))]
    /\ stack' = [stack EXCEPT ![t] =
                    Append(Pop(t), Frame(Top(t).node, pos))]

WaitVars == <<jobs, borrows, wt>>
ShellVars == <<cwd, env, proc, saved>>

----------------------------------------------------------------------------
(* Command::Simple *)

\* the match on argv.first(): which arm a Simple command takes
SimpleArm(argv) ==
    IF argv = <<>> THEN "empty"
    ELSE CASE argv[1] = ":" -> "null"
           [] argv[1] = "exit" -> "exit"
           [] argv[1] = "cd" -> "cd"
           [] OTHER -> "job"

\* the effect of a builtin's outcome on the shell
ApplyBuiltin(t, out) ==
    /\ effects' = Append(effects, Effect("builtin", ctl[t].cmd.words, t))
    /\ cwd' = out.cwd
    /\ env' = out.env
    /\ saved' = IF out.save THEN saved + 1 ELSE saved
    /\ IF out.terminate
         THEN /\ proc' = [alive |-> FALSE, code |-> out.code]
              /\ UNCHANGED <<ctl, stack, hist>>
         ELSE /\ proc' = proc
              /\ Return(t, ctl[t].cmd, out.res, NoStatus)

SimpleEmpty(t) ==
    /\ Evaluating(t, "Simple")
    /\ SimpleArm(ctl[t].cmd.words) = "empty"
    /\ Return(t, ctl[t].cmd, Ok(Exited(ThisPid, 0)), NoStatus)
    /\ UNCHANGED <<prog, rl, effects, ShellVars, WaitVars>>

SimpleNull(t) ==
    /\ Evaluating(t, "Simple")
    /\ SimpleArm(ctl[t].cmd.words) = "null"
    /\ ApplyBuiltin(t, NullRun(ctl[t].cmd.words, rl, cwd, env))
    /\ UNCHANGED <<prog, rl, WaitVars>>

SimpleExit(t) ==
    /\ Evaluating(t, "Simple")
    /\ SimpleArm(ctl[t].cmd.words) = "exit"
    /\ ApplyBuiltin(t, ExitRun(ctl[t].cmd.words, rl, cwd, env))
    /\ UNCHANGED <<prog, rl, WaitVars>>

SimpleCd(t) ==
    /\ Evaluating(t, "Simple")
    /\ SimpleArm(ctl[t].cmd.words) = "cd"
    /\ ApplyBuiltin(t, CdRun(ctl[t].cmd.words, rl, cwd, env))
    /\ UNCHANGED <<prog, rl, WaitVars>>

SimpleJob(t) ==
    /\ Evaluating(t, "Simple")
    /\ SimpleArm(ctl[t].cmd.words) = "job"
    /\ \E r \in JobRun(NextPid) :
          Return(t, ctl[t].cmd, MapErrRuntime(r), NoStatus)
    /\ effects' = Append(effects, Effect("job", ctl[t].cmd.words, t))
    /\ UNCHANGED <<prog, rl, ShellVars, WaitVars>>

----------------------------------------------------------------------------
(* Command::Compound, Not, And, Or *)

\* what a combinator does with a child's result: return res, or go on
Done(r) == [done |-> TRUE, res |-> r]
GoOn == [done |-> FALSE, res |-> NoResult]

\* a Compound that stops at the first child that does not exit with 0
CompoundStepAbort(r, pos, n) ==
    IF ~r.ok THEN Done(Err(r.err))
    ELSE IF pos < n /\ ExitedZero(r) THEN GoOn
    ELSE Done(Ok(r.st))

\* the body of the for loop, last = command.run()?, after the child at pos of
\* n children returned r
CompoundStep(r, pos, n) ==
    IF ~r.ok THEN Done(Err(r.err))
    ELSE IF pos < n THEN GoOn
    ELSE Done(Ok(r.st))

\* a Not that negates the exit code without normalising it
NotResultRaw(r) ==
    IF r.ok /\ r.st.t = "Exited"
      THEN Ok(Exited(r.st.pid, IF r.st.code = 0 THEN 1 ELSE r.st.code - 1))
    ELSE IF r.ok THEN Ok(r.st)
    ELSE Err("Runtime")

\* a Not that takes a child's error for a failure and negates it to success
NotResultSwallow(r) ==
    IF r.ok /\ r.st.t = "Exited"
      THEN Ok(Exited(r.st.pid, BoolAsI32(r.st.code = 0)))
    ELSE IF r.ok THEN Ok(r.st)
    ELSE Ok(Exited(ThisPid, 0))

\* the match of Command::Not on the child's result
NotResult(r) ==
    IF r.ok /\ r.st.t = "Exited"
      THEN Ok(Exited(r.st.pid, BoolAsI32(r.st.code = 0)))
    ELSE IF r.ok THEN Ok(r.st)
    ELSE Err("Runtime")

\* And without the guard c == 0: right runs after any exit of left
AndLeftAnyExit(r) ==
    IF r.ok /\ r.st.t = "Exited" THEN GoOn
    ELSE IF r.ok THEN Done(Ok(r.st))
    ELSE Done(Err("Runtime"))

\* the match of Command::And on left's result
AndLeft(r) ==
    IF r.ok /\ r.st.t = "Exited" /\ r.st.code = 0 THEN GoOn
    ELSE IF r.ok THEN Done(Ok(r.st))
    ELSE Done(Err("Runtime"))

\* Or with the guard of And: right runs after left exited with 0
OrLeftOnZero(r) ==
    IF r.ok /\ r.st.t = "Exited" /\ r.st.code = 0 THEN GoOn
    ELSE IF r.ok THEN Done(Ok(r.st))
    ELSE Done(Err("Runtime"))

\* the match of Command::Or on left's result
OrLeft(r) ==
    IF r.ok /\ r.st.t = "Exited" /\ r.st.code # 0 THEN GoOn
    ELSE IF r.ok THEN Done(Ok(r.st))
    ELSE Done(Err("Runtime"))

EvalCompound(t) ==
    /\ Evaluating(t, "Compound")
    /\ IF ctl[t].cmd.sub = <<>>
         THEN Return(t, ctl[t].cmd, Ok(Exited(ThisPid, 0)), NoStatus)
         ELSE Enter(t, ctl[t].cmd, 1)
    /\ UNCHANGED <<prog, rl, effects, ShellVars, WaitVars>>

RetCompound(t) ==
    /\ Returning(t, "Compound")
    /\ LET step == CompoundStep(ctl[t].res, Top(t).pos,
                                Len(Top(t).node.sub))
       IN  IF step.done THEN ReturnTop(t, step.res)
           ELSE Advance(t, Top(t).pos + 1)
    /\ UNCHANGED <<prog, rl, effects, ShellVars, WaitVars>>

EvalNot(t) ==
    /\ Evaluating(t, "Not")
    /\ Enter(t, ctl[t].cmd, 1)
    /\ UNCHANGED <<prog, rl, effects, ShellVars, WaitVars>>

RetNot(t) ==
    /\ Returning(t, "Not")
    /\ ReturnTop(t, NotResult(ctl[t].res))
    /\ UNCHANGED <<prog, rl, effects, ShellVars, WaitVars>>

EvalAnd(t) ==
    /\ Evaluating(t, "And")
    /\ Enter(t, ctl[t].cmd, 1)
    /\ UNCHANGED <<prog, rl, effects, ShellVars, WaitVars>>

RetAndLeft(t) ==
    /\ Returning(t, "And")
    /\ Top(t).pos = 1
    /\ LET step == AndLeft(ctl[t].res)
       IN  IF step.done THEN ReturnTop(t, step.res)
           ELSE Advance(t, 2)
    /\ UNCHANGED <<prog, rl, effects, ShellVars, WaitVars>>

RetAndRight(t) ==
    /\ Returning(t, "And")
    /\ Top(t).pos = 2
    /\ ReturnTop(t, MapErrRuntime(ctl[t].res))
    /\ UNCHANGED <<prog, rl, effects, ShellVars, WaitVars>>

EvalOr(t) ==
    /\ Evaluating(t, "Or")
    /\ Enter(t, ctl[t].cmd, 1)
    /\ UNCHANGED <<prog, rl, effects, ShellVars, WaitVars>>

RetOrLeft(t) ==
    /\ Returning(t, "Or")
    /\ Top(t).pos = 1
    /\ LET step == OrLeft(ctl[t].res)
       IN  IF step.done THEN ReturnTop(t, step.res)
           ELSE Advance(t, 2)
    /\ UNCHANGED <<prog, rl, effects, ShellVars, WaitVars>>

RetOrRight(t) ==
    /\ Returning(t, "Or")
    /\ Top(t).pos = 2
    /\ ReturnTop(t, MapErrRuntime(ctl[t].res))
    /\ UNCHANGED <<prog, rl, effects, ShellVars, WaitVars>>

----------------------------------------------------------------------------
(* Command::Pipeline and Command::Background *)

\* the status Command::Pipeline returns, the stages having exited with the
\* statuses ls and rs
PipelineResult(ls, rs) == Ok(Exited(ThisPid, 0))

\* both sides are Simple: left is spawned and read to its end, then right is
\* spawned, fed left's output and waited for
EvalPipeline(t) ==
    /\ Evaluating(t, "Pipeline")
    /\ ctl[t].cmd.sub[1].type = "Simple"
    /\ ctl[t].cmd.sub[2].type = "Simple"
    /\ \E ls \in StageStatus, rs \in StageStatus :
          Return(t, ctl[t].cmd, PipelineResult(ls, rs),
                 Exited(NextPid + 1, rs))
    /\ effects' = effects \o
                    <<Effect("stage", ctl[t].cmd.sub[1].words, t),
                      Effect("stage", ctl[t].cmd.sub[2].words, t)>>
    /\ UNCHANGED <<prog, rl, ShellVars, WaitVars>>

\* the status Command::Background returns to its caller
BackgroundResult == Ok(Exited(ThisPid, 0))

\* the thread thread::spawn creates: the first that does not exist yet
FreeThread == CHOOSE u \in BgThreads :
                 /\ ctl[u].mode = "unborn"
                 /\ \A v \in BgThreads : ctl[v].mode = "unborn" => u <= v

\* a Background that evaluates its child in the caller's thread
EvalBackgroundInline(t) ==
    /\ Evaluating(t, "Background")
    /\ Enter(t, ctl[t].cmd, 1)
    /\ UNCHANGED <<prog, rl, effects, ShellVars, WaitVars>>

\* thread::spawn of the closure that runs a clone of the command
EvalBackground(t) ==
    /\ Evaluating(t, "Background")
    /\ \E u \in BgThreads : ctl[u].mode = "unborn"
    /\ ctl' = [ctl EXCEPT
                 ![FreeThread] = Ctl("spawned", ctl[t].cmd.sub[1], NoResult),
                 ![t] = Ctl("ret", ctl[t].cmd, BackgroundResult)]
    /\ hist' = [hist EXCEPT ![t] =
                   Append(@, RetEv(ctl[t].cmd, Len(stack[t]),
                                   BackgroundResult))]
    /\ UNCHANGED <<prog, rl, stack, effects, ShellVars, WaitVars>>

\* the spawned thread enters its closure: command.run()
ThreadRun(u) ==
    /\ proc.alive
    /\ u \in BgThreads
    /\ ctl[u].mode = "spawned"
    /\ ctl' = [ctl EXCEPT ![u] = Ctl("eval", ctl[u].cmd, NoResult)]
    /\ hist' = [hist EXCEPT ![u] = Append(@, CallEv(ctl[u].cmd, 0))]
    /\ UNCHANGED <<prog, rl, stack, effects, ShellVars, WaitVars>>

\* the closure's unwrap() of the result: the thread ends, or panics
ThreadEnd(u) ==
    /\ proc.alive
    /\ u \in BgThreads
    /\ ctl[u].mode = "ret"
    /\ stack[u] = <<>>
    /\ ctl' = [ctl EXCEPT ![u] =
                  Ctl(IF ctl[u].res.ok THEN "ended" ELSE "panicked",
                      ctl[u].cmd, ctl[u].res)]
    /\ UNCHANGED <<prog, rl, stack, hist, effects, ShellVars, WaitVars>>

\* run returns to the caller of the program
MainReturn ==
    /\ proc.alive
    /\ ctl[Main].mode = "ret"
    /\ stack[Main] = <<>>
    /\ ctl' = [ctl EXCEPT ![Main] = Ctl("done", ctl[Main].cmd, ctl[Main].res)]
    /\ UNCHANGED <<prog, rl, stack, hist, effects, ShellVars, WaitVars>>

----------------------------------------------------------------------------
(* The evaluator's specification *)

NoWait == [pc |-> "idle", argv |-> <<>>, idx |-> 0, waited |-> <<>>,
           res |-> NoResult, raw |-> NoResult]

Init ==
    /\ prog \in Programs
    /\ ctl = [t \in Threads |->
                IF t = Main THEN Ctl("eval", prog, NoResult)
                ELSE Ctl("unborn", NoCommand, NoResult)]
    /\ stack = [t \in Threads |-> <<>>]
    /\ hist = [t \in Threads |->
                 IF t = Main THEN <<CallEv(prog, 0)>> ELSE <<>>]
    /\ cwd = "/"
    /\ env \in {[v \in {"HOME", "PWD"} |-> IF v = "HOME" THEN h ELSE "/"] :
                  h \in IF prog \in EnvPrograms THEN HomeValues
                        ELSE {"/home"}}
    /\ proc = [alive |-> TRUE, code |-> 0]
    /\ rl \in IF prog \in EnvPrograms THEN BOOLEAN ELSE {FALSE}
    /\ saved = 0
    /\ effects = <<>>
    /\ jobs = <<>>
    /\ borrows = 0
    /\ wt = NoWait

Next ==
    \/ \E t \in Threads : SimpleEmpty(t)
    \/ \E t \in Threads : SimpleNull(t)
    \/ \E t \in Threads : SimpleExit(t)
    \/ \E t \in Threads : SimpleCd(t)
    \/ \E t \in Threads : SimpleJob(t)
    \/ \E t \in Threads : EvalCompound(t)
    \/ \E t \in Threads : RetCompound(t)
    \/ \E t \in Threads : EvalNot(t)
    \/ \E t \in Threads : RetNot(t)
    \/ \E t \in Threads : EvalAnd(t)
    \/ \E t \in Threads : RetAndLeft(t)
    \/ \E t \in Threads : RetAndRight(t)
    \/ \E t \in Threads : EvalOr(t)
    \/ \E t \in Threads : RetOrLeft(t)
    \/ \E t \in Threads : RetOrRight(t)
    \/ \E t \in Threads : EvalPipeline(t)
    \/ \E t \in Threads : EvalBackground(t)
    \/ \E u \in BgThreads : ThreadRun(u)
    \/ \E u \in BgThreads : ThreadEnd(u)
    \/ MainReturn

Spec == Init /\ [][Next]_vars

----------------------------------------------------------------------------
(* Reading a history *)

IsCall(h, i, type) == h[i].ev = "call" /\ h[i].cmd.type = type

\* the index of the return of the call at i, 0 while it has not returned
RetOf(h, i) ==
    LET rets == {j \in (i + 1)..Len(h) :
                    h[j].ev = "ret" /\ h[j].depth = h[i].depth}
    IN  IF rets = {} THEN 0
        ELSE CHOOSE j \in rets : \A k \in rets : j <= k

\* the last index that belongs to the call at i
EndOf(h, i) == IF RetOf(h, i) = 0 THEN Len(h) ELSE RetOf(h, i)

\* the calls of run the call at i has made on its children
ChildCalls(h, i) ==
    {k \in (i + 1)..EndOf(h, i) :
        h[k].ev = "call" /\ h[k].depth = h[i].depth + 1}

\* the calls of run on a command of the given type, in any thread
CallsOf(type) ==
    UNION {{<<t, i>> : i \in {k \in DOMAIN hist[t] : IsCall(hist[t], k, type)}}
              : t \in Threads}

----------------------------------------------------------------------------
(* C1: And(left, right) calls run on left first; it calls run on right only
   after left returned exit status 0, and then returns what right returned;
   when left returns any other status (a non-zero exit code, a signal, a
   stop), run is never called on right and And returns left's status
   unchanged. *)
AndAt(h, i) ==
    LET node == h[i].cmd
        l == i + 1
        lr == RetOf(h, l)
        j == RetOf(h, i)
    IN  Len(h) > i =>
        /\ h[l] = CallEv(node.sub[1], h[i].depth + 1)
        /\ \A k \in ChildCalls(h, i) \ {l} :
              /\ lr # 0
              /\ k = lr + 1
              /\ ExitedZero(h[lr].res)
              /\ h[k].cmd = node.sub[2]
        /\ (j # 0 /\ lr # 0 /\ h[lr].res.ok) =>
              IF ExitedZero(h[lr].res)
                THEN /\ ChildCalls(h, i) = {l, lr + 1}
                     /\ RetOf(h, lr + 1) = j - 1
                     /\ h[j].res = h[j - 1].res
                ELSE /\ ChildCalls(h, i) = {l}
                     /\ j = lr + 1
                     /\ h[j].res = h[lr].res

C1_AndShortCircuit ==
    \A c \in CallsOf("And") : AndAt(hist[c[1]], c[2])

\* an And whose left operand was killed by a signal has returned that status
C1_Witness ==
    /\ prog.type = "And"
    /\ ctl[Main].mode = "done"
    /\ hist[Main][3].res.ok
    /\ hist[Main][3].res.st.t = "Signaled"
    /\ ctl[Main].res = hist[Main][3].res

----------------------------------------------------------------------------
(* C2: Or(left, right) calls run on left first; it calls run on right only
   after left returned a non-zero exit status, and then returns what right
   returned; when left exits with status 0, run is never called on right and
   Or returns left's status unchanged. *)
OrAt(h, i) ==
    LET node == h[i].cmd
        l == i + 1
        lr == RetOf(h, l)
        j == RetOf(h, i)
    IN  Len(h) > i =>
        /\ h[l] = CallEv(node.sub[1], h[i].depth + 1)
        /\ \A k \in ChildCalls(h, i) \ {l} :
              /\ lr # 0
              /\ k = lr + 1
              /\ ExitedNonZero(h[lr].res)
              /\ h[k].cmd = node.sub[2]
        /\ (j # 0 /\ lr # 0 /\ ChildCalls(h, i) # {l}) =>
              /\ RetOf(h, lr + 1) = j - 1
              /\ h[j].res = h[j - 1].res
        /\ (j # 0 /\ lr # 0 /\ ExitedZero(h[lr].res)) =>
              /\ ChildCalls(h, i) = {l}
              /\ j = lr + 1
              /\ h[j].res = h[lr].res

C2_OrShortCircuit ==
    \A c \in CallsOf("Or") : OrAt(hist[c[1]], c[2])

\* an Or whose left operand exited with 0 has returned that status
C2_Witness ==
    /\ prog.type = "Or"
    /\ ctl[Main].mode = "done"
    /\ ExitedZero(hist[Main][3].res)
    /\ Len(hist[Main]) = 4
    /\ ctl[Main].res = hist[Main][3].res

----------------------------------------------------------------------------
(* C3: Compound(c1..cn) calls run on its children in list order, each call
   right after the return of the one before; a child that returns a status,
   zero or not, is followed by the next child; and when every child has
   returned a status the Compound returns the status of cn. *)
\* the k-th call the call at i has made on a child
RECURSIVE NthChild(_, _, _)
NthChild(h, i, k) ==
    IF k = 1 THEN i + 1 ELSE RetOf(h, NthChild(h, i, k - 1)) + 1

CompoundAt(h, i) ==
    LET node == h[i].cmd
        n == Len(node.sub)
        j == RetOf(h, i)
        calls == ChildCalls(h, i)
        m == Cardinality(calls)
    IN  (Len(h) > i /\ n > 0) =>
        /\ m <= n
        /\ calls = {NthChild(h, i, k) : k \in 1..m}
        /\ \A k \in 1..m : h[NthChild(h, i, k)].cmd = node.sub[k]
        /\ \A k \in 1..(m - 1) : h[RetOf(h, NthChild(h, i, k))].res.ok
        /\ (j # 0 /\ h[j].res.ok) =>
              /\ m = n
              /\ RetOf(h, NthChild(h, i, n)) = j - 1
              /\ h[j].res = h[j - 1].res
        /\ (j # 0 /\ m < n) => ~h[j - 1].res.ok

----------------------------------------------------------------------------
(* C4: Not(c) returns exit status 1 when c exits with status 0, exit status
   0 when c exits with a non-zero status, and c's status unchanged when c
   ends with a non-exit wait status; so Not(Not(c)) returns status 0 when c
   exits with 0. *)
NotAt(h, i) ==
    LET c == i + 1
        cr == RetOf(h, c)
        j == RetOf(h, i)
    IN  (j # 0 /\ h[cr].res.ok) =>
        /\ j = cr + 1
        /\ ExitedZero(h[cr].res) =>
              h[j].res.ok /\ h[j].res.st.t = "Exited" /\ h[j].res.st.code = 1
        /\ ExitedNonZero(h[cr].res) => ExitedZero(h[j].res)
        /\ h[cr].res.st.t # "Exited" => h[j].res = h[cr].res
        /\ (h[c].cmd.type = "Not" /\ ExitedZero(h[cr - 1].res)) =>
              ExitedZero(h[j].res)

C4_NotNegates ==
    \A c \in CallsOf("Not") : NotAt(hist[c[1]], c[2])

\* Not(Not(c)) has returned after c exited with status 0
C4_Witness ==
    /\ prog.type = "Not"
    /\ prog.sub[1].type = "Not"
    /\ ctl[Main].mode = "done"
    /\ ExitedZero(hist[Main][4].res)
    /\ ExitedZero(ctl[Main].res)

----------------------------------------------------------------------------
(* C5: the status a Pipeline returns is the exit status of its right-hand
   stage. *)
PipelineAt(h, i) ==
    LET j == RetOf(h, i)
    IN  j # 0 =>
        /\ h[j].res.ok
        /\ h[j].res.st.t = "Exited"
        /\ h[j].res.st.code = h[j].stage.code

C5_PipelineStatusIsRightStage ==
    \A c \in CallsOf("Pipeline") : PipelineAt(hist[c[1]], c[2])

----------------------------------------------------------------------------
(* C6: a Simple command whose argv[0] is one of the builtin names exit, cd,
   export, wait, ., :, command, jobs is run by the builtin in the shell's
   process and no process is spawned for it; a Simple command with an empty
   argv returns status 0 and neither calls a builtin nor spawns. *)
C6_BuiltinsNeverSpawn ==
    /\ \A k \in DOMAIN effects : effects[k].argv # <<>>
    /\ \A k \in DOMAIN effects :
          effects[k].argv[1] \in BuiltinNames => effects[k].kind = "builtin"
    /\ \A t \in Threads : \A j \in DOMAIN hist[t] :
          (hist[t][j].ev = "ret" /\ hist[t][j].cmd = Simple(<<>>)) =>
              hist[t][j].res = Ok(Exited(ThisPid, 0))

----------------------------------------------------------------------------
(* C7: Background(c) returns exit status 0 to its caller at once, without
   evaluating c in the caller's thread; when it returns, a thread that
   evaluates c has been spawned; and the status stays 0 whatever c's thread
   does afterwards (run on, end, or panic on an error). *)
Born(u) == ctl[u].mode # "unborn"

\* the command the thread u was spawned for
ThreadCmd(u) == IF ctl[u].mode = "spawned" THEN ctl[u].cmd ELSE hist[u][1].cmd

BackgroundAt(h, i) ==
    LET j == RetOf(h, i)
    IN  /\ ChildCalls(h, i) = {}
        /\ Len(h) > i => j = i + 1
        /\ j # 0 =>
              /\ h[j].res = Ok(Exited(ThisPid, 0))
              /\ \E u \in BgThreads :
                    Born(u) /\ ThreadCmd(u) = h[i].cmd.sub[1]

\* the number of returns of Background commands
BackgroundReturns ==
    Cardinality({c \in CallsOf("Background") : RetOf(hist[c[1]], c[2]) # 0})

C7_BackgroundReturnsAtOnce ==
    /\ \A c \in CallsOf("Background") : BackgroundAt(hist[c[1]], c[2])
    /\ Cardinality({u \in BgThreads : Born(u)}) = BackgroundReturns

\* Background(c) has returned 0 to the caller of the program while c's thread
\* has not finished evaluating c
C7_Witness ==
    /\ prog.type = "Background"
    /\ ctl[Main].mode = "done"
    /\ ctl[Main].res = Ok(Exited(ThisPid, 0))
    /\ ctl[1].mode = "eval"
    /\ ctl[1].cmd = prog.sub[1]

----------------------------------------------------------------------------
(* C8: a cd whose directory change fails (argv of length 2 with a path that
   cannot be entered, argv of length 1 with HOME naming such a path) or that
   finds HOME unset with argv of length 1 returns a Runtime error and leaves
   the working directory and PWD as they were; PWD changes only in a step
   that changed the working directory to the same destination. *)
CdFails(argv) ==
    \/ Len(argv) = 2 /\ argv[2] \notin Dirs
    \/ Len(argv) = 1 /\ (env["HOME"] = Unset \/ env["HOME"] \notin Dirs)

CdStep(t) ==
    /\ Evaluating(t, "Simple")
    /\ SimpleArm(ctl[t].cmd.words) = "cd"
    /\ ctl'[t] # ctl[t]

C8_CdFailureChangesNothing ==
    [][/\ \A t \in Threads :
             (CdStep(t) /\ CdFails(ctl[t].cmd.words)) =>
                 /\ ctl'[t].mode = "ret"
                 /\ ctl'[t].res = Err("Runtime")
                 /\ cwd' = cwd
                 /\ env' = env
       /\ env'["PWD"] # env["PWD"] =>
             /\ cwd' = env'["PWD"]
             /\ cwd' \in Dirs
             /\ \E t \in Threads :
                   /\ CdStep(t)
                   /\ ctl'[t].res = Ok(Exited(ThisPid, 0))
                   /\ cwd' = IF Len(ctl[t].cmd.words) = 1 THEN env["HOME"]
                             ELSE ctl[t].cmd.words[2]]_vars

\* cd to a path that does not exist has returned a Runtime error, and the
\* working directory and PWD are the initial ones
C8_Witness ==
    /\ prog = Simple(<<"cd", "/nonexistent">>)
    /\ ctl[Main].mode = "done"
    /\ ctl[Main].res = Err("Runtime")
    /\ cwd = "/"
    /\ env["PWD"] = "/"

----------------------------------------------------------------------------
(* C9: exit with argv of length 1 terminates the process with code 0; with
   length 2 with the integer parsed from argv[1], or 2 when it does not
   parse; with a longer argv the process goes on and exit returns status 1.
   The history of a session with a line editor is saved when exit
   terminates the process (length 1 or 2), and at no other time. *)
\* the 32-bit integers the arguments of the model spell
ExpectedCode(w) ==
    CASE w = "0" -> 0
      [] w = "1" -> 1
      [] w = "42" -> 42
      [] w = "007" -> 7
      [] w = "+7" -> 7
      [] w = "-1" -> -1
      [] w = "2147483647" -> I32Max
      [] w = "-2147483648" -> I32Min
      [] OTHER -> 2

IsExit(k) == effects[k].kind = "builtin" /\ effects[k].argv[1] = "exit"

C9_ExitCodes ==
    /\ \A k \in DOMAIN effects :
          IsExit(k) =>
             IF Len(effects[k].argv) = 1
               THEN ~proc.alive /\ k = Len(effects) /\ proc.code = 0
             ELSE IF Len(effects[k].argv) = 2
               THEN /\ ~proc.alive
                    /\ k = Len(effects)
                    /\ proc.code = ExpectedCode(effects[k].argv[2])
             ELSE \E j \in DOMAIN hist[effects[k].thread] :
                     /\ hist[effects[k].thread][j].ev = "ret"
                     /\ hist[effects[k].thread][j].cmd = Simple(effects[k].argv)
                     /\ hist[effects[k].thread][j].res = Ok(Exited(ThisPid, 1))
    /\ ~proc.alive => IsExit(Len(effects))
    /\ saved = IF ~proc.alive /\ rl THEN 1 ELSE 0

\* exit 2147483648 in a session with a line editor: the argument does not
\* parse as a 32-bit integer, the process has ended with code 2 and the
\* history is saved
C9_Witness ==
    /\ prog = Simple(<<"exit", "2147483648">>)
    /\ ~proc.alive
    /\ proc.code = 2
    /\ rl
    /\ saved = 1

----------------------------------------------------------------------------
(* The wait builtin and the job table (builtin.rs, Wait::run) *)

\* the argument vectors wait is called with
WaitArgs ==
    {<<"wait">>, <<"wait", "2">>, <<"wait", "3">>, <<"wait", "42">>,
     <<"wait", "abc">>, <<"wait", "3", "2">>}

\* job.leader().wait(): what the OS's wait for the leader may give
LeaderWait(pid) ==
    {Ok(Exited(pid, 0)), Ok(Exited(pid, 1)), Ok(Signaled(pid, 9)),
     Err("ECHILD")}

\* a search of the table by job id instead of the leader's pid
FindJobById(table, pid) ==
    LET hits == {k \in DOMAIN table : table[k].id = pid}
    IN  IF hits = {} THEN 0 ELSE CHOOSE k \in hits : \A m \in hits : k <= m

\* the position in the table of the first job whose leader has the pid, 0
\* when there is none: iter().find(..)
FindJob(table, pid) ==
    LET hits == {k \in DOMAIN table : table[k].pid = pid}
    IN  IF hits = {} THEN 0 ELSE CHOOSE k \in hits : \A m \in hits : k <= m

\* raw is what the last leader().wait() returned
WaitState(pc, argv, idx, waited, res) ==
    [pc |-> pc, argv |-> argv, idx |-> idx, waited |-> waited, res |-> res,
     raw |-> NoResult]

EvalVars == <<prog, ctl, stack, hist, cwd, env, proc, rl, saved, effects>>

\* a job is registered under the next id, in one operation on the table
RegisterJob(pid) ==
    /\ wt.pc = "idle"
    /\ borrows = 0
    /\ Len(jobs) < MaxJobs
    /\ \A k \in DOMAIN jobs : jobs[k].pid # pid
    /\ jobs' = Append(jobs, [id |-> Len(jobs), pid |-> pid])
    /\ UNCHANGED <<EvalVars, borrows, wt>>

\* wait without argument: runtime.jobs.borrow().iter() of the for loop
WaitAll(argv) ==
    /\ wt.pc = "idle"
    /\ Len(argv) = 1
    /\ borrows' = borrows + 1
    /\ wt' = WaitState("loop", argv, 1, <<>>, NoResult)
    /\ UNCHANGED <<EvalVars, jobs>>

\* the for loop takes the next job and calls leader().wait(), or ends: the
\* borrow of the table is dropped and status 0 is returned
WaitLoop ==
    /\ wt.pc = "loop"
    /\ IF wt.idx <= Len(jobs)
         THEN /\ wt' = [wt EXCEPT !.pc = "blocked"]
              /\ borrows' = borrows
         ELSE /\ wt' = [wt EXCEPT !.pc = "done",
                                  !.res = Ok(Exited(ThisPid, 0))]
              /\ borrows' = borrows - 1
    /\ UNCHANGED <<EvalVars, jobs>>

\* the wait of the for loop returns; its result is dropped
WaitLoopWake ==
    /\ wt.pc = "blocked"
    /\ \E r \in LeaderWait(jobs[wt.idx].pid) :
          wt' = [wt EXCEPT !.pc = "loop", !.idx = @ + 1,
                           !.waited = Append(@, jobs[wt.idx].pid),
                           !.raw = r]
    /\ UNCHANGED <<EvalVars, jobs, borrows>>

\* wait with arguments: argv[1] is parsed (unwrap), the table is borrowed
\* and searched, and leader().wait() is called on the job found
WaitPid(argv) ==
    /\ wt.pc = "idle"
    /\ Len(argv) > 1
    /\ LET pid == ParseI32(Chars(argv[2]))
       IN  IF ~pid.ok
             THEN /\ wt' = WaitState("panicked", argv, 0, <<>>, NoResult)
                  /\ borrows' = borrows
           ELSE IF FindJob(jobs, pid.n) # 0
             THEN /\ wt' = WaitState("blockedOne", argv,
                                     FindJob(jobs, pid.n), <<>>, NoResult)
                  /\ borrows' = borrows + 1
           ELSE /\ wt' = WaitState("done", argv, 0, <<>>,
                                   Ok(Exited(ThisPid, 1337)))
                /\ borrows' = borrows
    /\ UNCHANGED <<EvalVars, jobs>>

\* the wait for the job found returns: its status is the result, a failure
\* a Runtime error; the borrow of the table is dropped
WaitPidWake ==
    /\ wt.pc = "blockedOne"
    /\ \E r \in LeaderWait(jobs[wt.idx].pid) :
          wt' = [wt EXCEPT !.pc = "done", !.res = MapErrRuntime(r),
                           !.waited = Append(@, jobs[wt.idx].pid),
                           !.raw = r]
    /\ borrows' = borrows - 1
    /\ UNCHANGED <<EvalVars, jobs>>

\* Wait::run has returned its result to its caller
WaitReturn ==
    /\ wt.pc = "done"
    /\ wt' = [wt EXCEPT !.pc = "idle"]
    /\ UNCHANGED <<EvalVars, jobs, borrows>>

InitWait ==
    /\ prog = NoCommand
    /\ ctl = [t \in Threads |->
                IF t = Main THEN Ctl("done", NoCommand, NoResult)
                ELSE Ctl("unborn", NoCommand, NoResult)]
    /\ stack = [t \in Threads |-> <<>>]
    /\ hist = [t \in Threads |-> <<>>]
    /\ cwd = "/"
    /\ env = [v \in {"HOME", "PWD"} |-> "/"]
    /\ proc = [alive |-> TRUE, code |-> 0]
    /\ rl = FALSE
    /\ saved = 0
    /\ effects = <<>>
    /\ jobs = <<>>
    /\ borrows = 0
    /\ wt = NoWait

NextWait ==
    \/ \E pid \in ChildPids : RegisterJob(pid)
    \/ \E argv \in WaitArgs : WaitAll(argv)
    \/ WaitLoop
    \/ WaitLoopWake
    \/ \E argv \in WaitArgs : WaitPid(argv)
    \/ WaitPidWake
    \/ WaitReturn

SpecWait == InitWait /\ [][NextWait]_vars

----------------------------------------------------------------------------
(* C10: whenever Wait::run is blocked in the OS's wait for a process, no
   borrow of the job table is outstanding. *)
C10_NoBorrowAcrossWait ==
    wt.pc \in {"blocked", "blockedOne"} => borrows = 0

----------------------------------------------------------------------------
(* C11: wait without argument blocks on the leader of every job of the table,
   once each and in the table's order, and returns status 0; wait with an
   argument that parses as a process id blocks only on the job whose leader
   has that pid and returns what that wait returned, a failed wait as a
   Runtime error; when no job of the table has that pid it blocks on nothing
   and returns exit status 1337. *)
\* the pids of the leaders of the first n jobs of the table
LeaderPids(n) == [k \in 1..n |-> jobs[k].pid]

\* the process id the argument of wait spells
WaitedPid(argv) ==
    CASE argv[2] = "2" -> 2
      [] argv[2] = "3" -> 3
      [] argv[2] = "42" -> 42
      [] OTHER -> 0

Tracked(pid) == \E k \in DOMAIN jobs : jobs[k].pid = pid

\* Wait::run has computed its result and is about to return it
Waited == wt.pc = "done"

C11_WaitBlocksOnJobs ==
    /\ (wt.pc \in {"loop", "blocked"}) =>
          /\ Len(wt.argv) = 1
          /\ wt.idx <= Len(jobs) + 1
          /\ wt.waited = LeaderPids(wt.idx - 1)
    /\ (Waited /\ Len(wt.argv) = 1) =>
          /\ wt.waited = LeaderPids(Len(jobs))
          /\ wt.res = Ok(Exited(ThisPid, 0))
    /\ wt.pc = "blockedOne" =>
          /\ Len(wt.argv) > 1
          /\ wt.waited = <<>>
          /\ jobs[wt.idx].pid = WaitedPid(wt.argv)
    /\ (Waited /\ Len(wt.argv) > 1) =>
          IF Tracked(WaitedPid(wt.argv))
            THEN /\ wt.waited = <<WaitedPid(wt.argv)>>
                 /\ wt.res = IF wt.raw.ok THEN wt.raw ELSE Err("Runtime")
            ELSE /\ wt.waited = <<>>
                 /\ wt.res = Ok(Exited(ThisPid, 1337))

\* wait 3 with the jobs of leaders 2 and 3 in the table has blocked on 3
\* alone and returned the status of that wait, a kill by signal
C11_Witness ==
    /\ wt.pc = "done"
    /\ wt.argv = <<"wait", "3">>
    /\ Len(jobs) = 2
    /\ jobs[1].pid = 2
    /\ wt.waited = <<3>>
    /\ wt.res = Ok(Signaled(3, 9))

----------------------------------------------------------------------------
(* C12: when run on a child of Not, And, Or or Compound returns an error,
   the next thing the combinator does is return an error itself: no further
   child is evaluated (the right operand after a left that erred, the rest
   of a Compound's list), the error is never turned into a status, and it is
   the Runtime error for Not, And and Or and the child's error for
   Compound. *)
IsError(r) == ~r.ok /\ r.err # "None"

PropagatesAt(h, i) ==
    \A k \in ChildCalls(h, i) :
       LET kr == RetOf(h, k)
       IN  (kr # 0 /\ IsError(h[kr].res) /\ kr < Len(h)) =>
              /\ h[kr + 1].ev = "ret"
              /\ h[kr + 1].cmd = h[i].cmd
              /\ h[kr + 1].depth = h[i].depth
              /\ IsError(h[kr + 1].res)
              /\ IF h[i].cmd.type = "Compound"
                   THEN h[kr + 1].res = h[kr].res
                   ELSE h[kr + 1].res = Err("Runtime")

C12_ErrorsPropagate ==
    \A type \in {"Not", "And", "Or", "Compound"} :
       \A c \in CallsOf(type) : PropagatesAt(hist[c[1]], c[2])

\* an Or whose left operand is a Not of a command that returned an error has
\* returned the Runtime error without evaluating its right operand
C12_Witness ==
    /\ prog.type = "Or"
    /\ prog.sub[1].type = "Not"
    /\ ctl[Main].mode = "done"
    /\ ctl[Main].res = Err("Runtime")
    /\ Len(hist[Main]) = 6
    /\ IsError(hist[Main][4].res)
    /\ IsError(hist[Main][5].res)

====
